---- MODULE Spec2Model ----
(***************************************************************************)
(* RelatioConstruct backend (backend/server.py): the keyword classifier,   *)
(* the Gemini gateway with its response clean-up and parsing, the JSON     *)
(* file store, and the three HTTP handlers.                                *)
(*                                                                         *)
(* Texts are sequences of one-character strings, so that lower(), strip()  *)
(* and the substring test `word in texto_lower` are computed character by  *)
(* character.  JSON scalars are tagged records [k, s].                     *)
(***************************************************************************)
EXTENDS Integers, Sequences, FiniteSets, TLC

\* ------------------------------------------------------------------ bounds
\* Longest word sequence joined into a classifier input.
MaxWords == 2
\* Number of POST requests (and, with concurrent workers, of requests) in one
\* behaviour: the values datetime.now() takes.
MaxClock == 2

\* ----------------------------------------------------------- JSON scalars
Str(s) == [k |-> "str", s |-> s]
Bool(b) == [k |-> "bool", s |-> IF b THEN "true" ELSE "false"]

\* ------------------------------------------------------------- characters
UpperChars ==
  <<"A","B","C","D","E","F","G","H","I","J","K","L","M","N","Ñ","O","P","Q",
    "R","S","T","U","V","W","X","Y","Z","Á","É","Í","Ó","Ú">>

LowerChars ==
  <<"a","b","c","d","e","f","g","h","i","j","k","l","m","n","ñ","o","p","q",
    "r","s","t","u","v","w","x","y","z","á","é","í","ó","ú">>

\* The lower-case letter of each upper-case letter.
ToLower ==
  [c \in {UpperChars[i] : i \in 1..Len(UpperChars)} |->
     LowerChars[CHOOSE i \in 1..Len(UpperChars) : UpperChars[i] = c]]

\* str.lower() on one character.
LowerChar(c) == IF c \in DOMAIN ToLower THEN ToLower[c] ELSE c

\* str.lower()
Lower(t) == [i \in 1..Len(t) |-> LowerChar(t[i])]

Whitespace == {" ", "\n", "\t"}

RECURSIVE LStrip(_)
LStrip(t) ==
  IF t # <<>> /\ Head(t) \in Whitespace THEN LStrip(Tail(t)) ELSE t

RECURSIVE RStrip(_)
RStrip(t) ==
  IF t # <<>> /\ t[Len(t)] \in Whitespace
  THEN RStrip(SubSeq(t, 1, Len(t) - 1))
  ELSE t

\* A strip() that removes nothing.
NoStrip(t) == t

\* str.strip()
Strip(t) == RStrip(LStrip(t))

\* `word in text` for two strings: word occurs as a contiguous substring.
Contains(word, text) ==
  \E i \in 1..(Len(text) - Len(word) + 1) :
    \A k \in 1..Len(word) : text[i + k - 1] = word[k]

\* sum(1 for word in keywords if word in texto_lower)
CountMatches(keywords, texto_lower) ==
  Cardinality({i \in 1..Len(keywords) : Contains(keywords[i], texto_lower)})

\* ---------------------------------------------------- keyword classifier
comunicacion_keywords ==
  << <<"h","a","b","l","a","r">>,
     <<"c","o","n","v","e","r","s","a","r">>,
     <<"d","i","j","e">>,
     <<"e","s","c","u","c","h","a","r">>,
     <<"e","x","p","r","e","s","a","r">>,
     <<"c","o","m","u","n","i","c","a","r">>,
     <<"c","o","m","e","n","t","a","r">>,
     <<"d","e","c","i","r">> >>

confianza_keywords ==
  << <<"c","o","n","f","i","a","r">>,
     <<"m","e","n","t","i","r">>,
     <<"s","e","c","r","e","t","o">>,
     <<"h","o","n","e","s","t","o">>,
     <<"c","e","l","u","l","a","r">>,
     <<"r","e","v","i","s","a","r">>,
     <<"c","e","l","o","s">>,
     <<"a","m","i","g","a">>,
     <<"a","m","i","g","o">> >>

respeto_keywords ==
  << <<"r","e","s","p","e","t","a","r">>,
     <<"v","a","l","o","r","a","r">>,
     <<"a","p","r","e","c","i","a","r">>,
     <<"i","n","s","u","l","t","a","r">>,
     <<"g","r","i","t","a","r">>,
     <<"e","s","p","a","c","i","o">>,
     <<"e","n","t","e","n","d","i","ó">>,
     <<"e","n","t","e","n","d","e","r">> >>

intimidad_keywords ==
  << <<"a","b","r","a","z","o">>,
     <<"b","e","s","o">>,
     <<"í","n","t","i","m","o">>,
     <<"c","e","r","c","a","n","o">>,
     <<"r","o","m","á","n","t","i","c","o">>,
     <<"c","a","r","i","ñ","o">>,
     <<"s","e","x","o">>,
     <<"f","o","t","o","s">> >>

compromiso_keywords ==
  << <<"f","u","t","u","r","o">>,
     <<"p","l","a","n","e","a","r">>,
     <<"j","u","n","t","o","s">>,
     <<"f","a","m","i","l","i","a">>,
     <<"p","r","o","y","e","c","t","o">>,
     <<"r","e","l","a","c","i","ó","n">>,
     <<"c","o","m","p","r","o","m","i","s","o">>,
     <<"s","e","r","i","o">> >>

palabras_negativas ==
  << <<"p","e","l","e","a">>,
     <<"d","i","s","c","u","t","i","r">>,
     <<"e","n","o","j","a","d","o">>,
     <<"m","a","l">>,
     <<"p","r","o","b","l","e","m","a">>,
     <<"m","e","n","t","i","r">>,
     <<"i","n","s","u","l","t","a","r">>,
     <<"c","e","l","o","s">> >>

palabras_positivas ==
  << <<"b","i","e","n">>,
     <<"a","m","o","r">>,
     <<"f","e","l","i","z">>,
     <<"e","n","t","e","n","d","i","ó">>,
     <<"a","c","u","e","r","d","o">>,
     <<"a","l","e","g","r","e">>,
     <<"a","p","o","y","ó">>,
     <<"j","u","n","t","o","s">>,
     <<"c","o","m","p","a","r","t","i","r">> >>

\* The five pillars the prompt allows for pilar_detectado.
Pillars == {"Comunicación", "Confianza", "Respeto", "Intimidad", "Compromiso"}

\* The actions the prompt allows for accion_visual_sugerida.
PositiveActions ==
  {"construir_cimiento", "construir_pared", "construir_techo", "pintar_pared",
   "añadir_ventana", "plantar_flor", "añadir_luz", "expandir_casa"}

NegativeActions ==
  {"dañar_cimiento", "añadir_grieta_pared", "romper_ventana", "despintar_pared",
   "crear_maleza", "apagar_luz", "retroceder_nivel"}

ActionSet == PositiveActions \cup NegativeActions

\* The dict pilar_counts, in insertion order.
pilar_counts(texto_lower) ==
  << [key |-> "Comunicación", count |-> CountMatches(comunicacion_keywords, texto_lower)],
     [key |-> "Confianza", count |-> CountMatches(confianza_keywords, texto_lower)],
     [key |-> "Respeto", count |-> CountMatches(respeto_keywords, texto_lower)],
     [key |-> "Intimidad", count |-> CountMatches(intimidad_keywords, texto_lower)],
     [key |-> "Compromiso", count |-> CountMatches(compromiso_keywords, texto_lower)] >>

RECURSIVE ArgMax(_, _, _)
ArgMax(counts, i, best) ==
  IF i > Len(counts)
  THEN best
  ELSE ArgMax(counts, i + 1, IF counts[i].count > counts[best].count THEN i ELSE best)

RECURSIVE ArgMaxLast(_, _, _)
ArgMaxLast(counts, i, best) ==
  IF i > Len(counts)
  THEN best
  ELSE ArgMaxLast(counts, i + 1, IF counts[i].count >= counts[best].count THEN i ELSE best)

\* A max() in which a later key replaces an equal earlier one.
PyMaxLastWins(counts) == counts[ArgMaxLast(counts, 2, 1)].key

\* max(pilar_counts, key=pilar_counts.get): the keys are visited in insertion
\* order and a key replaces the best so far only when its count is greater.
PyMax(counts) == counts[ArgMax(counts, 2, 1)].key

\* A comparison that resolves ties to not constructive.
EsConstructivoStrict(positivos_count, negativos_count) ==
  positivos_count > negativos_count

\* es_constructivo = positivos_count >= negativos_count
EsConstructivo(positivos_count, negativos_count) ==
  positivos_count >= negativos_count

\* A table in which the two Intimidad actions are exchanged.
accionesSwapped(es_constructivo) ==
  ("Comunicación" :> IF es_constructivo THEN "construir_pared" ELSE "añadir_grieta_pared") @@
  ("Confianza" :> IF es_constructivo THEN "construir_cimiento" ELSE "dañar_cimiento") @@
  ("Respeto" :> IF es_constructivo THEN "añadir_ventana" ELSE "romper_ventana") @@
  ("Intimidad" :> IF es_constructivo THEN "apagar_luz" ELSE "añadir_luz") @@
  ("Compromiso" :> IF es_constructivo THEN "construir_techo" ELSE "retroceder_nivel")

\* The dict acciones.
acciones(es_constructivo) ==
  ("Comunicación" :> IF es_constructivo THEN "construir_pared" ELSE "añadir_grieta_pared") @@
  ("Confianza" :> IF es_constructivo THEN "construir_cimiento" ELSE "dañar_cimiento") @@
  ("Respeto" :> IF es_constructivo THEN "añadir_ventana" ELSE "romper_ventana") @@
  ("Intimidad" :> IF es_constructivo THEN "añadir_luz" ELSE "apagar_luz") @@
  ("Compromiso" :> IF es_constructivo THEN "construir_techo" ELSE "retroceder_nivel")

insights_constructivo ==
  ("Comunicación" :> "Las palabras que han intercambiado construyen paredes fuertes que dan estructura a su hogar.") @@
  ("Confianza" :> "La confianza es el cimiento sobre el que se edifican las relaciones duraderas.") @@
  ("Respeto" :> "El respeto mutuo abre ventanas para que circule aire fresco en la relación.") @@
  ("Intimidad" :> "Han encendido una luz cálida que ilumina los rincones más personales de su relación.") @@
  ("Compromiso" :> "Están construyendo un techo sólido que protegerá su relación en días de tormenta.")

insights_no_constructivo ==
  ("Comunicación" :> "Han aparecido grietas en las paredes de su comunicación que necesitan reparación.") @@
  ("Confianza" :> "Los cimientos de confianza se han debilitado y requieren refuerzo inmediato.") @@
  ("Respeto" :> "Se han roto ventanas importantes en su estructura de respeto mutuo.") @@
  ("Intimidad" :> "La luz que iluminaba su conexión íntima se ha atenuado considerablemente.") @@
  ("Compromiso" :> "El techo de su compromiso tiene goteras que deben ser reparadas.")

consejos ==
  ("Comunicación" :> "Hablar abiertamente sobre necesidades y expectativas fortalece su conexión. Practica la escucha activa, verificando que entiendes lo que tu pareja quiere transmitir. Recuerda que comunicar no es solo hablar, sino asegurarse de ser comprendido.") @@
  ("Confianza" :> "La confianza se construye con consistencia en palabras y acciones. Sé transparente sobre tus sentimientos y preocupaciones. Si hay dudas, abórdalas directamente en vez de dejar que crezcan.") @@
  ("Respeto" :> "El respeto significa valorar las diferencias y respetar límites personales. Aprende a discutir sin atacar el carácter de tu pareja. Las palabras hirientes dejan cicatrices duraderas.") @@
  ("Intimidad" :> "La intimidad va más allá de lo físico; incluye vulnerabilidad emocional compartida. Dediquen tiempo a conexiones cotidianas significativas. A veces una mirada sincera vale más que grandes gestos.") @@
  ("Compromiso" :> "El compromiso es una decisión diaria de priorizar la relación. Construyan rituales compartidos que fortalezcan su vínculo. Las pequeñas promesas cumplidas refuerzan la confianza en el futuro conjunto.")

\* The dict with no keys.
EmptyDict == [key \in {} |-> Str("")]

\* The outcome of a call: a returned dict, or an exception.
Returned(dict) == [raised |-> FALSE, value |-> dict]
Raised == [raised |-> TRUE, value |-> EmptyDict]

\* get_fallback_response(texto_entrada); a lookup of a key the table lacks
\* raises KeyError.
get_fallback_response(texto_entrada) ==
  LET texto_lower == Lower(texto_entrada)
      pilar == PyMax(pilar_counts(texto_lower))
      negativos_count == CountMatches(palabras_negativas, texto_lower)
      positivos_count == CountMatches(palabras_positivas, texto_lower)
      es_constructivo == EsConstructivo(positivos_count, negativos_count)
      tabla == acciones(es_constructivo)
      insights == IF es_constructivo THEN insights_constructivo
                  ELSE insights_no_constructivo
  IN  IF pilar \notin DOMAIN tabla \/ pilar \notin DOMAIN insights
         \/ pilar \notin DOMAIN consejos
      THEN Raised
      ELSE Returned(
             [pilar_detectado |-> Str(pilar),
              magnitud_impacto |->
                Str(IF es_constructivo THEN "positiva_media" ELSE "negativa_media"),
              es_constructivo |-> Bool(es_constructivo),
              insight_arquitecto |-> Str(insights[pilar]),
              consejo_profesional |-> Str(consejos[pilar]),
              accion_visual_sugerida |-> Str(tabla[pilar])])

\* ------------------------------------------------------- classifier inputs
Vocabulary ==
  << <<"h","a","b","l","a","r">>,
     <<"c","e","l","u","l","a","r">>,
     <<"C","e","l","o","s">>,
     <<"m","e","n","t","i","r">>,
     <<"g","r","i","t","a","r">>,
     <<"b","e","s","o">>,
     <<"j","u","n","t","o","s">>,
     <<"e","n","t","e","n","d","i","ó">>,
     <<"m","a","l">>,
     <<"f","e","l","i","z">>,
     <<"h","o","y">>,
     <<"a","y","e","r">> >>

TextoRevise ==
  <<"R","e","v","i","s","é"," ","s","u"," ","c","e","l","u","l","a","r"," ","s","i","n"," ","p","e","r","m","i","s","o",".">>

TextoMudarnos ==
  <<"H","o","y"," ","d","e","c","i","d","i","m","o","s"," ","m","u","d","a","r","n","o","s"," ","j","u","n","t","o","s",".">>

TextoNormal ==
  <<"F","u","e"," ","u","n"," ","d","í","a"," ","n","o","r","m","a","l",".">>

TextoPelea ==
  <<" ","T","u","v","i","m","o","s"," ","u","n","a"," ","P","E","L","E","A","\n">>


RECURSIVE JoinWords(_)
JoinWords(ws) ==
  IF Len(ws) = 1 THEN Vocabulary[ws[1]]
  ELSE Vocabulary[ws[1]] \o <<" ">> \o JoinWords(Tail(ws))

ClassifierInputs ==
  {TextoRevise, TextoMudarnos, TextoNormal, Strip(TextoPelea)}
  \cup {JoinWords(ws) :
          ws \in UNION {[1..n -> 1..Len(Vocabulary)] : n \in 1..MaxWords}}

\* -------------------------------------------------------------- JSON file
\* An Entry as json.dump writes it: the values of its keys, in insertion order.
EntryToFields(e) ==
  <<e.timestamp, e.texto_entrada, e.pilar_detectado, e.magnitud_impacto,
    e.es_constructivo, e.insight_arquitecto, e.consejo_profesional,
    e.accion_visual_sugerida>>

\* The dict json.load rebuilds from a serialised object.
FieldsToEntry(f) ==
  [timestamp |-> f[1], texto_entrada |-> f[2], pilar_detectado |-> f[3],
   magnitud_impacto |-> f[4], es_constructivo |-> f[5],
   insight_arquitecto |-> f[6], consejo_profesional |-> f[7],
   accion_visual_sugerida |-> f[8]]

\* The content of the data file is a sequence of tokens.
Tok(tk, fields) == [tk |-> tk, fields |-> fields]
LBracket == Tok("[", <<>>)
RBracket == Tok("]", <<>>)
Comma == Tok(",", <<>>)
ObjTok(e) == Tok("obj", EntryToFields(e))
\* Bytes left behind a shorter document written over a longer one.
Junk == Tok("junk", <<>>)

RECURSIVE JsonDumpItems(_)
JsonDumpItems(entries) ==
  IF entries = <<>> THEN <<>>
  ELSE IF Len(entries) = 1 THEN <<ObjTok(entries[1])>>
  ELSE <<ObjTok(entries[1]), Comma>> \o JsonDumpItems(Tail(entries))

\* json.dump(entries, f) for a list of Entry dicts.
JsonDump(entries) == <<LBracket>> \o JsonDumpItems(entries) \o <<RBracket>>

\* json.load(f): the list, or JSONDecodeError when the content is not one
\* JSON array of objects (empty file, trailing bytes).
JsonLoad(data) ==
  LET n == Len(data)
      wellFormed ==
        /\ n >= 2
        /\ data[1].tk = "["
        /\ data[n].tk = "]"
        /\ \/ n = 2
           \/ /\ n % 2 = 1
              /\ \A i \in 2..(n - 1) :
                   data[i].tk = (IF i % 2 = 0 THEN "obj" ELSE ",")
  IN  IF wellFormed
      THEN [raised |-> FALSE,
            entries |-> [i \in 1..((n - 1) \div 2) |-> FieldsToEntry(data[2 * i].fields)]]
      ELSE [raised |-> TRUE, entries |-> <<>>]

\* The data directory and DATA_FILE: whether each exists, and the content.
NoDataDir == [dir |-> FALSE, exists |-> FALSE, data |-> <<>>]
FreshDataFile == [dir |-> TRUE, exists |-> TRUE, data |-> JsonDump(<<>>)]

\* What the operating system does to this request's open() calls.
IoModes == {"ok", "read_fails", "write_fails"}

\* ensure_data_directory()
ensure_data_directory(fs, io) ==
  IF fs.exists
  THEN [raised |-> FALSE, fs |-> [fs EXCEPT !.dir = TRUE]]
  ELSE IF io = "write_fails"
  THEN [raised |-> TRUE, fs |-> [fs EXCEPT !.dir = TRUE]]
  ELSE [raised |-> FALSE, fs |-> FreshDataFile]

\* load_entries(): FileNotFoundError and JSONDecodeError give [], any other
\* error of open() propagates.
load_entries(fs, io) ==
  LET ensured == ensure_data_directory(fs, io)
      parsed == JsonLoad(ensured.fs.data)
  IN  IF ensured.raised \/ io = "read_fails"
      THEN [raised |-> TRUE, fs |-> ensured.fs, entries |-> <<>>]
      ELSE [raised |-> FALSE, fs |-> ensured.fs,
            entries |-> IF parsed.raised THEN <<>> ELSE parsed.entries]

\* A write-back that puts the new entry first.
PrependEntry(entries, entry) == <<entry>> \o entries

\* entries.append(entry)
AppendEntry(entries, entry) == Append(entries, entry)

\* save_entry(entry)
save_entry(fs, entry, io) ==
  LET loaded == load_entries(fs, io)
  IN  IF loaded.raised \/ io = "write_fails"
      THEN [raised |-> TRUE, fs |-> loaded.fs]
      ELSE [raised |-> FALSE,
            fs |-> [loaded.fs EXCEPT
                      !.data = JsonDump(AppendEntry(loaded.entries, entry))]]

\* The content after `doc` is written at offset 0 of a file holding `old`.
\* open(DATA_FILE, 'w') truncates and the buffered document is written on
\* close: when another handle has written in between, the bytes of the older
\* content beyond the length of `doc` stay.  Lengths in bytes depend on the
\* texts, so both outcomes are kept unless the token counts decide: every
\* document is at least the two bytes of [].
Overlay(doc, old) ==
  IF Len(old) <= 2 THEN {doc}
  ELSE IF Len(doc) = 2 THEN {doc \o <<Junk>>}
  ELSE {doc, doc \o <<Junk>>}

\* ---------------------------------------------------------- request bodies
\* The JSON bodies of POST /api/entry: no JSON object (or an empty one), an
\* object without the key, the key with texts, the key with a non-string.
Body(has_data, has_key, is_str, texto) ==
  [has_data |-> has_data, has_key |-> has_key, is_str |-> is_str, texto |-> texto]

PostBodies ==
  << Body(FALSE, FALSE, FALSE, <<>>),
     Body(TRUE, FALSE, FALSE, <<>>),
     Body(TRUE, TRUE, TRUE, <<>>),
     Body(TRUE, TRUE, TRUE, <<" ", "\n", " ">>),
     Body(TRUE, TRUE, FALSE, <<>>),
     Body(TRUE, TRUE, TRUE, TextoRevise),
     Body(TRUE, TRUE, TRUE, TextoPelea) >>

\* ------------------------------------------------------------- the gateway
\* response.text is a sequence of tokens: whitespace, the fences ```json and
\* ```, text that is not JSON, and a JSON value (an index into Documents).
GTok(tk, doc) == [tk |-> tk, doc |-> doc]
Ws == GTok("ws", 0)
FenceJson == GTok("fence_json", 0)
Fence == GTok("fence", 0)
Text == GTok("text", 0)
Json(d) == GTok("json", d)

\* A parsed JSON value: its Python type, its keys and values when it is a
\* dict, and for a list or a str whether it contains "es_constructivo".
Doc(type, dict, has_key) == [type |-> type, dict |-> dict, has_key |-> has_key]

FullDict ==
  [pilar_detectado |-> Str("Confianza"),
   magnitud_impacto |-> Str("negativa_grande"),
   es_constructivo |-> Bool(FALSE),
   insight_arquitecto |-> Str("Una grieta recorre el cimiento."),
   consejo_profesional |-> Str("Pidan disculpas y hablen con calma."),
   accion_visual_sugerida |-> Str("dañar_cimiento")]

Documents ==
  << Doc("dict", FullDict, FALSE),
     Doc("dict", [FullDict EXCEPT !.es_constructivo = Str(<<"T","r","u","e">>)], FALSE),
     Doc("dict", [FullDict EXCEPT !.pilar_detectado = Str("Amor")], FALSE),
     Doc("dict", [FullDict EXCEPT !.accion_visual_sugerida = Str("demoler_casa")], FALSE),
     Doc("dict", EmptyDict, FALSE),
     Doc("list", EmptyDict, FALSE),
     Doc("list", EmptyDict, TRUE),
     Doc("str", EmptyDict, FALSE),
     Doc("str", EmptyDict, TRUE),
     Doc("int", EmptyDict, FALSE) >>

\* What generate_content does: raise (or give no text), or answer with text.
Raises == [raises |-> TRUE, text |-> <<>>]
Answers(text) == [raises |-> FALSE, text |-> text]

GatewayOutcomes ==
  << Raises,
     Answers(<<Json(1)>>),
     Answers(<<Ws, FenceJson, Ws, Json(1), Ws, Fence, Ws>>),
     Answers(<<Fence, Json(1), Fence>>),
     Answers(<<FenceJson, Json(1)>>),
     Answers(<<Fence, Text, Json(1), Fence>>),
     Answers(<<Text>>),
     Answers(<<>>),
     Answers(<<Json(1), Json(1)>>),
     Answers(<<Json(2)>>),
     Answers(<<Json(3)>>),
     Answers(<<Json(4)>>),
     Answers(<<Json(5)>>),
     Answers(<<Json(6)>>),
     Answers(<<Json(7)>>),
     Answers(<<Json(8)>>),
     Answers(<<Json(9)>>),
     Answers(<<Json(10)>>) >>

RECURSIVE LStripTokens(_)
LStripTokens(t) ==
  IF t # <<>> /\ Head(t).tk = "ws" THEN LStripTokens(Tail(t)) ELSE t

RECURSIVE RStripTokens(_)
RStripTokens(t) ==
  IF t # <<>> /\ t[Len(t)].tk = "ws"
  THEN RStripTokens(SubSeq(t, 1, Len(t) - 1))
  ELSE t

\* text_response.strip()
StripTokens(t) == RStripTokens(LStripTokens(t))

\* The clean-up of the response text: strip, drop a leading ```json or else a
\* leading ```, drop a trailing ```, strip.
CleanResponse(text_response) ==
  LET t1 == StripTokens(text_response)
      t2 == IF t1 # <<>> /\ t1[1].tk = "fence_json" THEN Tail(t1)
            ELSE IF t1 # <<>> /\ t1[1].tk = "fence" THEN Tail(t1)
            ELSE t1
      t3 == IF t2 # <<>> /\ t2[Len(t2)].tk = "fence"
            THEN SubSeq(t2, 1, Len(t2) - 1)
            ELSE t2
  IN  StripTokens(t3)

\* json.loads(text_response): one JSON value, surrounding whitespace allowed.
json_loads(text_response) ==
  LET t == StripTokens(text_response)
  IN  IF Len(t) = 1 /\ t[1].tk = "json"
      THEN [raised |-> FALSE, doc |-> Documents[t[1].doc]]
      ELSE [raised |-> TRUE, doc |-> Doc("NoneType", EmptyDict, FALSE)]

\* The es_constructivo coercion.  `"es_constructivo" in x` raises TypeError
\* for a number, a bool or None; x["es_constructivo"] raises TypeError for a
\* list or a str.
CoerceEsConstructivo(doc) ==
  IF doc.type = "dict"
  THEN IF "es_constructivo" \in DOMAIN doc.dict /\ doc.dict["es_constructivo"].k = "str"
       THEN [raised |-> FALSE,
             doc |-> [doc EXCEPT !.dict["es_constructivo"] =
                        Bool(Lower(doc.dict["es_constructivo"].s) = <<"t","r","u","e">>)]]
       ELSE [raised |-> FALSE, doc |-> doc]
  ELSE IF doc.type \in {"list", "str"}
  THEN [raised |-> doc.has_key, doc |-> doc]
  ELSE [raised |-> TRUE, doc |-> doc]

\* get_fallback_response is a function of the text alone: its values on the
\* texts of the request bodies, stripped or not, computed once.
fallback_values ==
  [t \in {Strip(PostBodies[b].texto) : b \in 1..Len(PostBodies)}
           \cup {PostBodies[b].texto : b \in 1..Len(PostBodies)} |->
     get_fallback_response(t)]

\* What call_gemini_api returns when it returns the classifier's result.
FallbackFrom(fb, gateway_calls) ==
  [raised |-> fb.raised, doc |-> Doc("dict", fb.value, FALSE),
   gateway_calls |-> gateway_calls, fallback_calls |-> 1]

\* The two branches that end in `return get_fallback_response(texto_entrada)`.
Fallback(texto_entrada, gateway_calls) ==
  FallbackFrom(fallback_values[texto_entrada], gateway_calls)

\* The try block once generate_content has been called: any exception in the
\* call, the parsing or the coercion gives the classifier's result.
ModelAnswer(texto_entrada, outcome, parsed, coerced) ==
  IF outcome.raises \/ parsed.raised \/ coerced.raised
  THEN Fallback(texto_entrada, 1)
  ELSE [raised |-> FALSE, doc |-> coerced.doc,
        gateway_calls |-> 1, fallback_calls |-> 0]

\* call_gemini_api(texto_entrada), with the client and what the model does.
call_gemini_api(texto_entrada, client, outcome) ==
  IF client
  THEN ModelAnswer(texto_entrada, outcome,
                   json_loads(CleanResponse(outcome.text)),
                   CoerceEsConstructivo(json_loads(CleanResponse(outcome.text)).doc))
  ELSE Fallback(texto_entrada, 0)

\* ------------------------------------------------------------ the handlers
\* dict.get(key, default)
PyGet(dict, key, default) == IF key \in DOMAIN dict THEN dict[key] ELSE default

\* What the body holds for the input text.
InputKind(body) ==
  IF ~body.has_data \/ ~body.has_key THEN "missing"
  ELSE IF ~body.is_str THEN "not_a_string"
  ELSE IF body.texto = <<>> THEN "empty"
  ELSE IF \A i \in 1..Len(body.texto) : body.texto[i] \in Whitespace THEN "blank"
  ELSE "valid"

Reply(status, entry, fs, gateway_calls, fallback_calls, saved, returned_type) ==
  [status |-> status, entry |-> entry, fs |-> fs, gateway_calls |-> gateway_calls,
   fallback_calls |-> fallback_calls, saved |-> saved,
   returned_type |-> returned_type]

Built(status, entry, gateway_calls, fallback_calls, returned_type) ==
  [status |-> status, entry |-> entry, gateway_calls |-> gateway_calls,
   fallback_calls |-> fallback_calls, returned_type |-> returned_type]

\* The record `entry`, from the dict call_gemini_api returned.
EntryFrom(now, texto_entrada, d) ==
  [timestamp |-> now,
   texto_entrada |-> texto_entrada,
   pilar_detectado |-> PyGet(d, "pilar_detectado", Str("Desconocido")),
   magnitud_impacto |-> PyGet(d, "magnitud_impacto", Str("neutral")),
   es_constructivo |-> PyGet(d, "es_constructivo", Bool(TRUE)),
   insight_arquitecto |-> PyGet(d, "insight_arquitecto", Str("Registro procesado.")),
   consejo_profesional |->
     PyGet(d, "consejo_profesional", Str("Reflexiona sobre esta experiencia.")),
   accion_visual_sugerida |-> PyGet(d, "accion_visual_sugerida", Str("construir_pared"))]

\* The validation, and what follows the call of call_gemini_api: .get() on a
\* value that is not a dict raises AttributeError, which the handler answers
\* with 500.  Status 0: the entry was built.
BuildFrom(body, now, texto_entrada, architect_response) ==
  IF ~body.has_data \/ ~body.has_key
  THEN Built(400, <<>>, 0, 0, "none")
  ELSE IF ~body.is_str
  THEN Built(500, <<>>, 0, 0, "none")
  ELSE IF texto_entrada = <<>>
  THEN Built(400, <<>>, 0, 0, "none")
  ELSE IF architect_response.raised \/ architect_response.doc.type # "dict"
  THEN Built(500, <<>>, architect_response.gateway_calls,
             architect_response.fallback_calls, architect_response.doc.type)
  ELSE Built(0, <<EntryFrom(now, texto_entrada, architect_response.doc.dict)>>,
             architect_response.gateway_calls, architect_response.fallback_calls,
             architect_response.doc.type)

\* create_entry() up to the construction of `entry`.  `now` is datetime.now().
build_entry(body, now, client, outcome) ==
  BuildFrom(body, now, Strip(body.texto),
            call_gemini_api(Strip(body.texto), client, outcome))

\* The end of create_entry(): the 200 with the entry, or the 500 when
\* save_entry raised.
AfterSave(built, saved) ==
  IF saved.raised
  THEN Reply(500, <<>>, saved.fs, built.gateway_calls, built.fallback_calls, 0,
             built.returned_type)
  ELSE Reply(200, built.entry, saved.fs, built.gateway_calls, built.fallback_calls, 1,
             built.returned_type)

SaveBuilt(built, fs, io) ==
  IF built.status # 0
  THEN Reply(built.status, <<>>, fs, built.gateway_calls, built.fallback_calls, 0,
             built.returned_type)
  ELSE AfterSave(built, save_entry(fs, built.entry[1], io))

\* create_entry(): POST /api/entry.
create_entry(body, now, client, outcome, fs, io) ==
  SaveBuilt(build_entry(body, now, client, outcome), fs, io)

\* get_entries(): GET /api/entries.
get_entries(fs, io) ==
  LET loaded == load_entries(fs, io)
  IN  [status |-> IF loaded.raised THEN 500 ELSE 200,
       list |-> loaded.entries, fs |-> loaded.fs]

\* A clear that answers 200 and leaves the file as it is.
clear_entries_keeps(fs, io) == [status |-> 200, fs |-> fs]

\* clear_entries(): DELETE /api/entries.  open(DATA_FILE, 'w') fails when the
\* data directory does not exist.
clear_entries(fs, io) ==
  IF ~fs.dir \/ io = "write_fails"
  THEN [status |-> 500, fs |-> fs]
  ELSE [status |-> 200,
        fs |-> [dir |-> TRUE, exists |-> TRUE, data |-> JsonDump(<<>>)]]

\* The entries the data file holds (what json.load gives, [] when it fails).
Stored(fs) == LET parsed == JsonLoad(fs.data)
              IN  IF parsed.raised THEN <<>> ELSE parsed.entries

\* ------------------------------------------------------------------- state
VARIABLES
  genai_client,   \* whether the module-level client was created
  data_file,      \* the data directory and DATA_FILE
  clock,          \* datetime.now()
  request,        \* the request served last
  response,       \* its response
  calls,          \* what serving it invoked
  pc,             \* concurrent workers: where each worker is in its request
  job,            \* concurrent workers: the request each worker is serving
  resp,           \* concurrent workers: the last response of each worker
  posts_ok,       \* concurrent workers: POSTs answered 200 since the last clear
  fb_texto,       \* classifier specification: the input text
  fb_result       \* classifier specification: the result, once computed

vars ==
  <<genai_client, data_file, clock, request, response, calls,
    pc, job, resp, posts_ok, fb_texto, fb_result>>

server_vars == <<genai_client, data_file, clock, request, response, calls>>
worker_vars == <<pc, job, resp, posts_ok>>
fb_vars == <<fb_texto, fb_result>>

\* The handler threads of the development server.
Workers == {"w1", "w2"}

NoJob == [kind |-> "none", entry |-> <<>>, entries |-> <<>>]
NoResp == [method |-> "none", status |-> 0, entry |-> <<>>]
WorkersIdle ==
  /\ pc = [w \in Workers |-> "idle"]
  /\ job = [w \in Workers |-> NoJob]
  /\ resp = [w \in Workers |-> NoResp]
  /\ posts_ok = 0

NoRequest == [method |-> "none", input |-> "none", io |-> "ok", stored |-> 0]
NoResponse == [status |-> 0, entry |-> <<>>, list |-> <<>>]
NoCalls == [gateway |-> 0, fallback |-> 0, saved |-> 0, returned_type |-> "none"]

\* --------------------------------------------- the server, one request at a time
Init ==
  /\ genai_client \in BOOLEAN
  /\ data_file \in {NoDataDir, FreshDataFile}
  /\ clock = 0
  /\ request = NoRequest
  /\ response = NoResponse
  /\ calls = NoCalls
  /\ WorkersIdle
  /\ fb_texto = <<>>
  /\ fb_result = <<>>

\* The state after create_entry answered.
PostAnswered(r, input, io) ==
  /\ data_file' = r.fs
  /\ request' = [method |-> "POST", input |-> input, io |-> io,
                 stored |-> Len(Stored(data_file))]
  /\ response' = [status |-> r.status, entry |-> r.entry, list |-> <<>>]
  /\ calls' = [gateway |-> r.gateway_calls, fallback |-> r.fallback_calls,
               saved |-> r.saved, returned_type |-> r.returned_type]

PostEntry ==
  /\ clock < MaxClock
  /\ \E b \in 1..Len(PostBodies), o \in 1..Len(GatewayOutcomes), io \in IoModes :
       PostAnswered(create_entry(PostBodies[b], clock, genai_client,
                                 GatewayOutcomes[o], data_file, io),
                    InputKind(PostBodies[b]), io)
  /\ clock' = clock + 1
  /\ UNCHANGED <<genai_client, worker_vars, fb_vars>>

\* The state after get_entries answered.
GetAnswered(r, io) ==
  /\ data_file' = r.fs
  /\ request' = [method |-> "GET", input |-> "none", io |-> io,
                 stored |-> Len(Stored(data_file))]
  /\ response' = [status |-> r.status, entry |-> <<>>, list |-> r.list]

GetEntries ==
  /\ \E io \in IoModes : GetAnswered(get_entries(data_file, io), io)
  /\ calls' = NoCalls
  /\ UNCHANGED <<genai_client, clock, worker_vars, fb_vars>>

\* The state after clear_entries answered.
ClearAnswered(r, io) ==
  /\ data_file' = r.fs
  /\ request' = [method |-> "DELETE", input |-> "none", io |-> io,
                 stored |-> Len(Stored(data_file))]
  /\ response' = [status |-> r.status, entry |-> <<>>, list |-> <<>>]

ClearEntries ==
  /\ \E io \in IoModes : ClearAnswered(clear_entries(data_file, io), io)
  /\ calls' = NoCalls
  /\ UNCHANGED <<genai_client, clock, worker_vars, fb_vars>>

Next == PostEntry \/ GetEntries \/ ClearEntries

Spec == Init /\ [][Next]_vars

\* ---------------------------------------- the server, two requests at a time
\* The bodies and the model behaviours the concurrent requests draw from.
ConcBodies == {b \in 1..Len(PostBodies) : InputKind(PostBodies[b]) = "valid"}
ConcOutcomes ==
  {o \in 1..Len(GatewayOutcomes) :
     GatewayOutcomes[o] \in {Raises, Answers(<<Json(1)>>), Answers(<<Json(6)>>)}}

InitConc ==
  /\ genai_client \in BOOLEAN
  /\ data_file = FreshDataFile
  /\ clock = 0
  /\ request = NoRequest
  /\ response = NoResponse
  /\ calls = NoCalls
  /\ WorkersIdle
  /\ fb_texto = <<>>
  /\ fb_result = <<>>

\* The worker after the entry was built, or after the 400 or 500.
PostBuilt(w, built) ==
  IF built.status # 0
  THEN /\ resp' = [resp EXCEPT ![w] = [method |-> "POST", status |-> built.status,
                                       entry |-> <<>>]]
       /\ job' = [job EXCEPT ![w] = NoJob]
       /\ UNCHANGED pc
  ELSE /\ pc' = [pc EXCEPT ![w] = "load"]
       /\ job' = [job EXCEPT ![w] = [kind |-> "post", entry |-> built.entry,
                                     entries |-> <<>>]]
       /\ UNCHANGED resp

\* create_entry() up to the call of save_entry.
BeginPost(w) ==
  /\ pc[w] = "idle"
  /\ clock < MaxClock
  /\ \E b \in ConcBodies, o \in ConcOutcomes :
       PostBuilt(w, build_entry(PostBodies[b], clock, genai_client, GatewayOutcomes[o]))
  /\ clock' = clock + 1
  /\ UNCHANGED <<genai_client, data_file, request, response, calls, posts_ok, fb_vars>>

\* save_entry: entries = load_entries()
LoadStep(w) ==
  /\ pc[w] = "load"
  /\ data_file' = load_entries(data_file, "ok").fs
  /\ job' = [job EXCEPT ![w].entries = load_entries(data_file, "ok").entries]
  /\ pc' = [pc EXCEPT ![w] = "open"]
  /\ UNCHANGED <<genai_client, clock, request, response, calls, resp, posts_ok, fb_vars>>

\* clear_entries() up to its open().
BeginClear(w) ==
  /\ pc[w] = "idle"
  /\ clock < MaxClock
  /\ pc' = [pc EXCEPT ![w] = "open"]
  /\ job' = [job EXCEPT ![w] = [kind |-> "clear", entry |-> <<>>, entries |-> <<>>]]
  /\ clock' = clock + 1
  /\ UNCHANGED <<genai_client, data_file, request, response, calls, resp, posts_ok, fb_vars>>

\* open(DATA_FILE, 'w'): the file is truncated.
OpenStep(w) ==
  /\ pc[w] = "open"
  /\ data_file' = [dir |-> TRUE, exists |-> TRUE, data |-> <<>>]
  /\ pc' = [pc EXCEPT ![w] = "flush"]
  /\ posts_ok' = IF job[w].kind = "clear" THEN 0 ELSE posts_ok
  /\ UNCHANGED <<genai_client, clock, request, response, calls, job, resp, fb_vars>>

\* json.dump and the close of the file, then the 200 response.
FlushStep(w) ==
  /\ pc[w] = "flush"
  /\ LET doc == IF job[w].kind = "post"
                THEN JsonDump(AppendEntry(job[w].entries, job[w].entry[1]))
                ELSE JsonDump(<<>>)
     IN  \E data \in Overlay(doc, data_file.data) :
           data_file' = [data_file EXCEPT !.data = data]
  /\ pc' = [pc EXCEPT ![w] = "idle"]
  /\ resp' = [resp EXCEPT ![w] =
                [method |-> IF job[w].kind = "post" THEN "POST" ELSE "DELETE",
                 status |-> 200, entry |-> job[w].entry]]
  /\ posts_ok' = IF job[w].kind = "post" THEN posts_ok + 1 ELSE 0
  /\ UNCHANGED <<genai_client, clock, request, response, calls, job, fb_vars>>

NextConc ==
  \E w \in Workers :
    BeginPost(w) \/ LoadStep(w) \/ BeginClear(w) \/ OpenStep(w) \/ FlushStep(w)

SpecConc == InitConc /\ [][NextConc]_vars

\* ------------------------------------------------ classifier specification
InitFallback ==
  /\ fb_texto \in ClassifierInputs
  /\ fb_result = <<>>
  /\ genai_client = FALSE
  /\ data_file = FreshDataFile
  /\ clock = 0
  /\ request = NoRequest
  /\ response = NoResponse
  /\ calls = NoCalls
  /\ WorkersIdle

Classify ==
  /\ fb_result = <<>>
  /\ fb_result' = <<get_fallback_response(fb_texto)>>
  /\ UNCHANGED <<fb_texto, server_vars, worker_vars>>

NextFallback == Classify

SpecFallback == InitFallback /\ [][NextFallback]_vars

\* ------------------------------------------------------------------ claims
\* The entries of the store, when nothing fails: what load_entries returns.
ReadAll(fs) == load_entries(fs, "ok").entries

\* C1.  Every POST /api/entry whose input text is non-empty after trimming
\* and whose store read and write do not fail is answered 200 with an Entry,
\* whatever the model does.
C1_ValidPostAlwaysSucceeds ==
  (request.method = "POST" /\ request.input = "valid" /\ request.io = "ok")
    => (response.status = 200 /\ Len(response.entry) = 1)

\* C2.  Every Entry in the persisted store has a pilar_detectado among the
\* five pillars and an accion_visual_sugerida among the fixed actions.
C2_StoredEntriesInEnumerations ==
  \A i \in 1..Len(Stored(data_file)) :
    /\ Stored(data_file)[i].pilar_detectado \in {Str(x) : x \in Pillars}
    /\ Stored(data_file)[i].accion_visual_sugerida \in {Str(x) : x \in ActionSet}

\* C3.  With requests served one at a time, a POST answered 200 leaves the
\* store holding what it held before followed by the returned Entry: the new
\* Entry is last, every earlier Entry keeps its position and its fields.
C3_AppendRoundTrip ==
  [][(clock' # clock /\ response'.status = 200)
       => ReadAll(data_file') = Append(ReadAll(data_file), response'.entry[1])]_vars

C3_Witness ==
  /\ request.method = "POST"
  /\ response.status = 200
  /\ request.stored >= 1
  /\ Len(ReadAll(data_file)) = request.stored + 1
  /\ ReadAll(data_file)[request.stored + 1] = response.entry[1]

\* C4.  A POST /api/entry whose input text is missing, empty, or empty after
\* trimming is answered 400, leaves the data file as it was, and calls
\* neither the gateway nor the keyword classifier.
C4_InvalidInputRejected ==
  [][(clock' # clock /\ request'.input \in {"missing", "empty", "blank"})
       => /\ response'.status = 400
          /\ data_file' = data_file
          /\ calls'.gateway = 0
          /\ calls'.fallback = 0
          /\ calls'.saved = 0]_vars

C4_Witness ==
  /\ request.method = "POST"
  /\ request.input = "blank"
  /\ response.status = 400
  /\ request.stored >= 1
  /\ Len(Stored(data_file)) = request.stored

\* C7.  After a DELETE /api/entries answered 200, a GET /api/entries with no
\* append in between returns the empty sequence.
C7_ClearThenReadIsEmpty ==
  (request.method = "DELETE" /\ response.status = 200)
    => /\ get_entries(data_file, "ok").status = 200
       /\ get_entries(data_file, "ok").list = <<>>

C7_Witness ==
  /\ request.method = "DELETE"
  /\ response.status = 200
  /\ request.stored >= 1
  /\ get_entries(data_file, "ok").list = <<>>

\* C8.  Every POST /api/entry with valid input calls the gateway at most
\* once, gets its one classification from the model or from exactly one call
\* of the keyword classifier, appends exactly one Entry, and returns the
\* Entry it appended.
C8_OneEntryPerValidPost ==
  (request.method = "POST" /\ request.input = "valid" /\ request.io = "ok")
    => /\ calls.gateway <= 1
       /\ calls.fallback <= 1
       /\ (calls.fallback = 1 \/ calls.returned_type = "dict")
       /\ calls.saved = 1
       /\ Len(Stored(data_file)) = request.stored + 1
       /\ response.entry = <<Stored(data_file)[Len(Stored(data_file))]>>

\* C9.  The append is a read-modify-write without a lock: what a POST
\* writes back is the sequence it read earlier followed by its own Entry,
\* whatever the file holds by then, so that of two concurrent POSTs answered
\* 200 the store can hold the Entry of only one (the witness).
C9_WriteBackIsStaleSnapshot ==
  [][\A w \in Workers :
       (pc[w] = "flush" /\ pc'[w] = "idle" /\ job[w].kind = "post")
         => LET written == JsonDump(Append(job[w].entries, job[w].entry[1]))
            IN  /\ Len(data_file'.data) >= Len(written)
                /\ SubSeq(data_file'.data, 1, Len(written)) = written
                /\ ReadAll(data_file') \in {Append(job[w].entries, job[w].entry[1]), <<>>}]_vars

\* Two POSTs answered 200, no clear since, and one Entry in the store.
C9_Witness ==
  /\ \A w \in Workers : pc[w] = "idle" /\ resp[w].method = "POST" /\ resp[w].status = 200
  /\ posts_ok = 2
  /\ Len(ReadAll(data_file)) = 1
  /\ \E w \in Workers : ReadAll(data_file)[1] \notin {resp[w].entry[1]}

\* The result of the classifier, once computed.
FbDone == fb_result # <<>>
FbValue == fb_result[1].value
CountsOf(texto) == pilar_counts(Lower(texto))
AllZero(counts) == \A i \in 1..Len(counts) : counts[i].count = 0
IndexOf(counts, pilar) == CHOOSE i \in 1..Len(counts) : Str(counts[i].key) = pilar

\* C5 as stated.  With the gateway unavailable, "Revisé su celular sin
\* permiso." is classified Confianza, not constructive, dañar_cimiento.
C5_ReviseDamagesFoundation ==
  (FbDone /\ fb_texto = TextoRevise)
    => /\ FbValue.pilar_detectado = Str("Confianza")
       /\ FbValue.es_constructivo = Bool(FALSE)
       /\ FbValue.accion_visual_sugerida = Str("dañar_cimiento")

\* C5 as amended.  "Revisé su celular sin permiso." is classified Confianza,
\* constructive (no sentiment word matches, and a tie is constructive),
\* construir_cimiento.
C5_ReviseBuildsFoundation ==
  (FbDone /\ fb_texto = TextoRevise)
    => /\ ~fb_result[1].raised
       /\ FbValue.pilar_detectado = Str("Confianza")
       /\ FbValue.es_constructivo = Bool(TRUE)
       /\ FbValue.accion_visual_sugerida = Str("construir_cimiento")

C5_Witness ==
  /\ FbDone
  /\ fb_texto = TextoRevise
  /\ FbValue.magnitud_impacto = Str("positiva_media")

\* C6.  For every non-empty text get_fallback_response returns without
\* raising, with a pillar among the five and an action among the fixed
\* actions: the action of the (pillar, es_constructivo) table, a positive one
\* when es_constructivo is true and a negative one when it is false.
C6_FallbackWellFormed ==
  FbDone
    => /\ ~fb_result[1].raised
       /\ FbValue.pilar_detectado \in {Str(x) : x \in Pillars}
       /\ FbValue.accion_visual_sugerida \in {Str(x) : x \in ActionSet}
       /\ FbValue.es_constructivo \in {Bool(TRUE), Bool(FALSE)}
       /\ \A x \in Pillars :
            FbValue.pilar_detectado = Str(x) =>
              FbValue.accion_visual_sugerida =
                Str(acciones(FbValue.es_constructivo = Bool(TRUE))[x])
       /\ FbValue.es_constructivo = Bool(TRUE) =>
            FbValue.accion_visual_sugerida \in {Str(x) : x \in PositiveActions}
       /\ FbValue.es_constructivo = Bool(FALSE) =>
            FbValue.accion_visual_sugerida \in {Str(x) : x \in NegativeActions}

C6_Witness ==
  /\ FbDone
  /\ Len(fb_texto) > 0
  /\ FbValue.pilar_detectado = Str("Intimidad")
  /\ FbValue.es_constructivo = Bool(FALSE)
  /\ FbValue.accion_visual_sugerida = Str("apagar_luz")

\* C10 as stated.  When the pillar counts tie for the maximum the pillar
\* checked last among them wins; with every count zero the pillar is
\* Compromiso.
C10_LastPillarWinsTies ==
  FbDone
    => LET counts == CountsOf(fb_texto)
           won == IndexOf(counts, FbValue.pilar_detectado)
       IN  /\ \A i \in 1..Len(counts) :
                (i > won) => counts[i].count < counts[won].count
           /\ AllZero(counts) => FbValue.pilar_detectado = Str("Compromiso")

\* C10 as amended.  The pillar returned has the maximal count, and among the
\* pillars that tie for it the one first in the order Comunicación,
\* Confianza, Respeto, Intimidad, Compromiso wins; with every count zero the
\* pillar is Comunicación.
C10_FirstPillarWinsTies ==
  FbDone
    => LET counts == CountsOf(fb_texto)
           won == IndexOf(counts, FbValue.pilar_detectado)
       IN  /\ \A i \in 1..Len(counts) : counts[i].count <= counts[won].count
           /\ \A i \in 1..Len(counts) :
                (i < won) => counts[i].count < counts[won].count
           /\ AllZero(counts) => FbValue.pilar_detectado = Str("Comunicación")

C10_Witness ==
  /\ FbDone
  /\ AllZero(CountsOf(fb_texto))
  /\ FbValue.pilar_detectado = Str("Comunicación")

====
